---- MODULE Spec2Model ----
(***************************************************************************)
(* The research page (src/app/page.tsx, component Home) together with the  *)
(* two HTTP endpoints it talks to.                                         *)
(*                                                                         *)
(* Client state is the React state of Home: value, isLoading, results,     *)
(* error, history.  The two asynchronous functions fetchHistory and        *)
(* handleResearch are cut at their awaits: the part before the await is    *)
(* one action (it puts a request in flight), the continuation after the    *)
(* await is another action (it consumes the response).  Requests in flight *)
(* are the sets posts and gets.                                            *)
(*                                                                         *)
(* The FastAPI server (src/main.py in the repository layout) is not among  *)
(* the sources; its store and its two handlers are modelled from the       *)
(* specification's sections 3, 4.1 and 4.2.                                 *)
(*                                                                         *)
(* summary, findings and sources of an answer are opaque payload that the  *)
(* client copies unchanged; an answer is modelled by question, category    *)
(* and timestamp.                                                          *)
(***************************************************************************)
EXTENDS Integers, Sequences, FiniteSets

VARIABLES
    mounted,    \* the mount effect (useEffect, [] dependencies) has run
    value,      \* useState('')      : text of the input field, a sequence of characters
    isLoading,  \* useState(false)
    results,    \* useState(null)    : <<>> for null, <<answer>> otherwise
    error,      \* useState(null)    : <<>> for null, <<message>> otherwise
    history,    \* useState({})      : category -> sequence of history items
    posts,      \* POST /api/research requests and responses in flight
    gets,       \* GET /api/history requests and responses in flight
    postSeq,    \* number of POST requests issued so far
    fetchSeq,   \* number of GET requests issued so far
    store,      \* server: category -> sequence of answers
    clock,      \* server: number of answers appended so far (the timestamp source)
    succeeded,  \* ghost: (category, question) of every submission whose OK response was handled
    latest,     \* ghost: the most recently issued fetchHistory: what it must show, and its outcome
    rejected    \* ghost: the last handler run was a handleResearch that returned on its first line

vars == <<mounted, value, isLoading, results, error, history, posts, gets,
          postSeq, fetchSeq, store, clock, succeeded, latest, rejected>>

client == <<value, isLoading, results, error, history>>

----------------------------------------------------------------------------
(* Bounds and input sets *)

MaxPosts == 2

Whitespace == {" "}

\* The texts a user types: empty, blank, and a question that trimming would change.
Inputs == { <<>>, <<" ">>, <<" ", "b">> }

\* The texts a user types when two different questions are asked.
QuestionInputs == { <<>>, <<"a">>, <<" ", "b">> }

FallbackCategory == "general"

\* What the Answer Producer may put in the category field; <<>> is "no category".
ProducerCategories == { <<"science">>, <<>> }

\* A producer that files every answer under the same category.
OneCategory == { <<"science">> }

None == <<>>

Some(x) == <<x>>

EmptyMap == [c \in {} |-> <<>>]

----------------------------------------------------------------------------
(* Pure helpers *)

RECURSIVE TrimStart(_)
TrimStart(s) ==
    IF s = <<>> THEN <<>>
    ELSE IF Head(s) \in Whitespace THEN TrimStart(Tail(s)) ELSE s

RECURSIVE TrimEnd(_)
TrimEnd(s) ==
    IF s = <<>> THEN <<>>
    ELSE IF s[Len(s)] \in Whitespace THEN TrimEnd(SubSeq(s, 1, Len(s) - 1)) ELSE s

\* Variant of Trim: no trimming at all, as if the guard read !value
TrimNothing(s) == s

\* String.prototype.trim
Trim(s) == TrimEnd(TrimStart(s))

\* !value.trim() : the empty string is the only falsy string
IsBlank(v) == Trim(v) = <<>>

\* Variant of PostBody: the trimmed text is sent
PostBodyTrimmed(v) == Trim(v)

\* body: JSON.stringify({ question: value })
PostBody(v) == v

\* disabled={isLoading} on the input
InputDisabled == isLoading

\* Variant of ButtonDisabled: the loading flag is not consulted
ButtonDisabledIgnoresLoading == IsBlank(value)

\* disabled={isLoading || !value.trim()} on the Research button
ButtonDisabled == isLoading \/ IsBlank(value)

\* history[c] with a missing key read as the empty bucket
Bucket(m, c) == IF c \in DOMAIN m THEN m[c] ELSE <<>>

----------------------------------------------------------------------------
(* Server: History Store and Research Service *)

\* category: from the producer output, else the fallback label
Category(out) == IF out = <<>> THEN FallbackCategory ELSE out[1]

\* Variant of StoreAppend: the answer is also added to every existing bucket
StoreAppendEverywhere(s, answer) ==
    [c \in DOMAIN s \cup {answer.category} |-> Append(Bucket(s, c), answer)]

\* History Store.append: insert into the bucket of answer.category, creating it if absent
StoreAppend(s, answer) ==
    [c \in DOMAIN s \cup {answer.category} |->
        IF c = answer.category THEN Append(Bucket(s, c), answer) ELSE s[c]]

\* History Store.readAll: a snapshot of the whole mapping
ReadAll(s) == s

\* Research Service.submit constraint: non-empty after trimming whitespace
ValidQuestion(q) == \E i \in 1..Len(q) : q[i] \notin Whitespace

Respond(set, m, stage, data) ==
    (set \ {m}) \cup {[m EXCEPT !.stage = stage, !.data = data]}

\* submit, success: timestamp and category assigned, one append, the record returned
ServerResearchOk(p, out) ==
    /\ p.stage = "req"
    /\ ValidQuestion(p.question)
    /\ LET answer == [question |-> p.question,
                      category |-> Category(out),
                      timestamp |-> clock + 1]
       IN /\ store' = StoreAppend(store, answer)
          /\ clock' = clock + 1
          /\ posts' = Respond(posts, p, "ok", Some(answer))
    /\ rejected' = FALSE
    /\ UNCHANGED <<mounted, client, gets, postSeq, fetchSeq, succeeded, latest>>

\* submit, failure (InvalidInput, ProducerFailure, StoreUnavailable): status >= 400, no append
ServerResearchFail(p) ==
    /\ p.stage = "req"
    /\ posts' = Respond(posts, p, "err", None)
    /\ rejected' = FALSE
    /\ UNCHANGED <<mounted, client, gets, postSeq, fetchSeq, store, clock, succeeded, latest>>

\* fetchHistory, success: the snapshot is taken when the server handles the request
ServerHistoryOk(g) ==
    /\ g.stage = "req"
    /\ gets' = Respond(gets, g, "ok", ReadAll(store))
    /\ rejected' = FALSE
    /\ UNCHANGED <<mounted, client, posts, postSeq, fetchSeq, store, clock, succeeded, latest>>

\* fetchHistory, failure (StoreUnavailable on read): status >= 400
ServerHistoryFail(g) ==
    /\ g.stage = "req"
    /\ gets' = Respond(gets, g, "err", EmptyMap)
    /\ rejected' = FALSE
    /\ UNCHANGED <<mounted, client, posts, postSeq, fetchSeq, store, clock, succeeded, latest>>

----------------------------------------------------------------------------
(* Client: fetchHistory *)

\* fetchHistory up to its await: one GET in flight.  seen is the ghost set of
\* submissions that have succeeded when the call is made.
FetchHistoryCall(base, seen) ==
    /\ gets' = base \cup {[seq |-> fetchSeq + 1, stage |-> "req",
                           data |-> EmptyMap, after |-> seen]}
    /\ fetchSeq' = fetchSeq + 1
    /\ latest' = [after |-> seen, status |-> "pending"]

Settle(g, status) ==
    latest' = IF g.seq = fetchSeq THEN [latest EXCEPT !.status = status] ELSE latest

\* useEffect(() => { inputRef.current?.focus(); fetchHistory() }, [])
Mount ==
    /\ ~mounted
    /\ mounted' = TRUE
    /\ FetchHistoryCall(gets, succeeded)
    /\ rejected' = FALSE
    /\ UNCHANGED <<client, posts, postSeq, store, clock, succeeded>>

\* res.ok: setHistory(await res.json())
FetchHistoryOk(g) ==
    /\ g.stage = "ok"
    /\ history' = g.data
    /\ gets' = gets \ {g}
    /\ Settle(g, "ok")
    /\ rejected' = FALSE
    /\ UNCHANGED <<mounted, value, isLoading, results, error, posts, postSeq,
                   fetchSeq, store, clock, succeeded>>

\* !res.ok: the function ends without touching any state
FetchHistoryNotOk(g) ==
    /\ g.stage = "err"
    /\ gets' = gets \ {g}
    /\ Settle(g, "failed")
    /\ rejected' = FALSE
    /\ UNCHANGED <<mounted, client, posts, postSeq, fetchSeq, store, clock, succeeded>>

\* fetch rejects (request or response lost): catch logs to the console only
FetchHistoryCatch(g) ==
    /\ gets' = gets \ {g}
    /\ Settle(g, "failed")
    /\ rejected' = FALSE
    /\ UNCHANGED <<mounted, client, posts, postSeq, fetchSeq, store, clock, succeeded>>

----------------------------------------------------------------------------
(* Client: handleResearch *)

\* The messages of the TypeError a rejected fetch carries (they differ by browser).
NetworkErrorMessages == {"Failed to fetch", "Load failed"}

\* err.message.includes('fetch')
IncludesFetch(msg) == msg \in {"Failed to fetch"}

\* catch (err): the message handed to setError
CatchMessage(isTypeError, msg) ==
    IF isTypeError /\ IncludesFetch(msg)
    THEN "Failed to connect to API server"
    ELSE msg

\* Variant of Finally: the flag is never reset
FinallyMissing == isLoading' = isLoading

\* finally { setIsLoading(false) }
Finally == isLoading' = FALSE

\* handleResearch up to its await.  asked, hist0 and store0 are ghost fields of the
\* request: the input text, the history state and the server's store when the
\* submission started.
HandleResearch ==
    IF IsBlank(value)
    THEN /\ rejected' = TRUE
         /\ UNCHANGED <<mounted, client, posts, gets, postSeq, fetchSeq,
                        store, clock, succeeded, latest>>
    ELSE /\ postSeq < MaxPosts
         /\ isLoading' = TRUE
         /\ error' = None
         /\ results' = None
         /\ posts' = posts \cup {[id |-> postSeq + 1, asked |-> value, hist0 |-> history,
                                  store0 |-> store,
                                  question |-> PostBody(value),
                                  stage |-> "req", data |-> None]}
         /\ postSeq' = postSeq + 1
         /\ rejected' = FALSE
         /\ UNCHANGED <<mounted, value, history, gets, fetchSeq,
                        store, clock, succeeded, latest>>

\* response.ok: setResults(data); fetchHistory(); finally
HandleResearchOk(p) ==
    /\ p.stage = "ok"
    /\ posts' = posts \ {p}
    /\ results' = p.data
    /\ succeeded' = succeeded \cup {[category |-> p.data[1].category, question |-> p.asked]}
    /\ FetchHistoryCall(gets, succeeded')
    /\ Finally
    /\ rejected' = FALSE
    /\ UNCHANGED <<mounted, value, error, history, postSeq, store, clock>>

\* Variant of HandleResearchNotOk: the failure path refreshes the history as well
HandleResearchNotOkRefetch(p) ==
    /\ p.stage = "err"
    /\ posts' = posts \ {p}
    /\ error' = Some(CatchMessage(FALSE, "Server error"))
    /\ FetchHistoryCall(gets, succeeded)
    /\ Finally
    /\ rejected' = FALSE
    /\ UNCHANGED <<mounted, value, results, history, postSeq, store, clock, succeeded>>

\* !response.ok: throw new Error(`Server error: ...`); catch; finally
HandleResearchNotOk(p) ==
    /\ p.stage = "err"
    /\ posts' = posts \ {p}
    /\ error' = Some(CatchMessage(FALSE, "Server error"))
    /\ Finally
    /\ rejected' = FALSE
    /\ UNCHANGED <<mounted, value, results, history, gets, postSeq, fetchSeq,
                   store, clock, succeeded, latest>>

\* Variant of HandleResearchCatch: the failure path clears the input field
HandleResearchCatchClearsInput(p, msg) ==
    /\ posts' = posts \ {p}
    /\ error' = Some(CatchMessage(TRUE, msg))
    /\ value' = <<>>
    /\ Finally
    /\ rejected' = FALSE
    /\ UNCHANGED <<mounted, results, history, gets, postSeq, fetchSeq,
                   store, clock, succeeded, latest>>

\* fetch rejects with a TypeError (request or response lost); catch; finally
HandleResearchCatch(p, msg) ==
    /\ posts' = posts \ {p}
    /\ error' = Some(CatchMessage(TRUE, msg))
    /\ Finally
    /\ rejected' = FALSE
    /\ UNCHANGED <<mounted, value, results, history, gets, postSeq, fetchSeq,
                   store, clock, succeeded, latest>>

----------------------------------------------------------------------------
(* Client: user events *)

\* onChange={(e) => setValue(e.target.value)}
OnChange(v) ==
    /\ mounted
    /\ ~InputDisabled
    /\ value' = v
    /\ rejected' = FALSE
    /\ UNCHANGED <<mounted, isLoading, results, error, history, posts, gets,
                   postSeq, fetchSeq, store, clock, succeeded, latest>>

\* handleKeyPress with e.key === 'Enter'
HandleKeyPress ==
    IF ~isLoading
    THEN HandleResearch
    ELSE rejected' = FALSE
         /\ UNCHANGED <<mounted, client, posts, gets, postSeq, fetchSeq,
                        store, clock, succeeded, latest>>

\* Enter pressed in the input field
KeyPressEnter ==
    /\ mounted
    /\ ~InputDisabled
    /\ HandleKeyPress

\* onClick={handleResearch} on the Research button
ClickResearch ==
    /\ mounted
    /\ ~ButtonDisabled
    /\ HandleResearch

\* loadHistoryItem(item), item the i-th entry rendered under category c
LoadHistoryItem(c, i) ==
    /\ mounted
    /\ LET item == history[c][i]
       IN /\ value' = item.question
          /\ results' = Some([question |-> item.question,
                              category |-> item.category,
                              timestamp |-> item.timestamp])
    /\ rejected' = FALSE
    /\ UNCHANGED <<mounted, isLoading, error, history, posts, gets,
                   postSeq, fetchSeq, store, clock, succeeded, latest>>

----------------------------------------------------------------------------
(* Rendering *)

\* Variant of RenderBucket: the rows are produced last item first
RenderBucketReversed(items) ==
    [idx \in 1..Len(items) |->
        [question |-> items[Len(items) + 1 - idx].question,
         date |-> items[Len(items) + 1 - idx].timestamp]]

\* items.map((item, idx) => ...): one row per item, keyed by its index
RenderBucket(items) ==
    [idx \in 1..Len(items) |->
        [question |-> items[idx].question, date |-> items[idx].timestamp]]

\* Object.entries(history).map(([category, items]) => ...)
Sidebar == [c \in DOMAIN history |-> RenderBucket(history[c])]

----------------------------------------------------------------------------
(* Specification *)

Init ==
    /\ mounted = FALSE
    /\ value = <<>>
    /\ isLoading = FALSE
    /\ results = None
    /\ error = None
    /\ history = EmptyMap
    /\ posts = {}
    /\ gets = {}
    /\ postSeq = 0
    /\ fetchSeq = 0
    /\ store = EmptyMap
    /\ clock = 0
    /\ succeeded = {}
    /\ latest = [after |-> {}, status |-> "none"]
    /\ rejected = FALSE

\* One step of the page or of the server, the user typing texts of `inputs` and the
\* Answer Producer choosing the category field among `outs`.
Step(inputs, outs) ==
    \/ Mount
    \/ \E v \in inputs : OnChange(v)
    \/ KeyPressEnter
    \/ ClickResearch
    \/ \E c \in DOMAIN history : \E i \in 1..Len(history[c]) : LoadHistoryItem(c, i)
    \/ \E p \in posts : \E out \in outs : ServerResearchOk(p, out)
    \/ \E p \in posts : ServerResearchFail(p)
    \/ \E p \in posts : HandleResearchOk(p)
    \/ \E p \in posts : HandleResearchNotOk(p)
    \/ \E p \in posts : \E msg \in NetworkErrorMessages : HandleResearchCatch(p, msg)
    \/ \E g \in gets : ServerHistoryOk(g)
    \/ \E g \in gets : ServerHistoryFail(g)
    \/ \E g \in gets : FetchHistoryOk(g)
    \/ \E g \in gets : FetchHistoryNotOk(g)
    \/ \E g \in gets : FetchHistoryCatch(g)

\* One question typed, answers filed under two categories
Next == Step(Inputs, ProducerCategories)

Spec == Init /\ [][Next]_vars

\* Two different questions typed, answers filed under one category
NextTwoQuestions == Step(QuestionInputs, OneCategory)

SpecTwoQuestions == Init /\ [][NextTwoQuestions]_vars

----------------------------------------------------------------------------
(* Vocabulary of the properties *)

\* m has, under s.category, an entry whose question is s.question
HasEntry(m, s) ==
    \E i \in 1..Len(Bucket(m, s.category)) : Bucket(m, s.category)[i].question = s.question

\* v is empty or consists of whitespace only (stated without Trim)
AllWhitespace(v) == \A i \in 1..Len(v) : v[i] \in Whitespace

\* The step takes submission p out of flight: its handleResearch call resumes and ends
SubmitConsumed(p) == p \in posts /\ \A q \in posts' : q.id # p.id

\* The step takes history read g out of flight: its fetchHistory call resumes and ends
ReadConsumed(g) == g \in gets /\ \A h \in gets' : h.seq # g.seq

\* The step consumes the outcome of submission p, and that outcome is a failure:
\* an error response, or a request that never got an answer.
SubmitFailed(p) == SubmitConsumed(p) /\ p.stage \in {"req", "err"}

\* The step consumes the outcome of history read g, and that outcome is a failure.
ReadFailed(g) == ReadConsumed(g) /\ g.stage \in {"req", "err"}

\* What identifies an answer in a listing: its question and its creation instant
Row(e) == [question |-> e.question, date |-> e.timestamp]

Rows(b) == [i \in 1..Len(b) |-> Row(b[i])]

\* r is a leading part of s
IsPrefix(r, s) == Len(r) <= Len(s) /\ \A i \in 1..Len(r) : r[i] = s[i]

\* The creation instants of all answers held in m
StoredInstants(m) == UNION {{m[c][i].timestamp : i \in 1..Len(m[c])} : c \in DOMAIN m}

\* Oldest first: creation instants strictly increase along the bucket
OldestFirst(b) == \A i, j \in 1..Len(b) : i < j => b[i].timestamp < b[j].timestamp

----------------------------------------------------------------------------
(* Properties *)

\* C1 (read-after-write): every successful answer to a fetchHistory that was issued
\* after submit(q) had succeeded holds, under the category that submit returned, an
\* entry whose question is q.  This covers the refresh handleResearch issues itself.
C1_ReadAfterWrite ==
    \A g \in gets : g.stage = "ok" => \A s \in g.after : HasEntry(g.data, s)

\* C1 witness: a history answer in flight for a fetch issued after a successful submit
C1_Witness ==
    \E g \in gets : g.stage = "ok" /\ g.after # {} /\ g.seq = fetchSeq

\* C2 (no partial writes): the server step that fails a submission appends nothing; when
\* the client handles a failed submission the store is what it was when the submission
\* started, no history refresh is issued and the history state is left as it is.
C2_NoPartialWrites ==
    [][ /\ \A p \in posts :
              (p.stage = "req" /\ [p EXCEPT !.stage = "err"] \in posts')
                  => (store' = store /\ clock' = clock)
        /\ \A p \in posts :
              SubmitFailed(p) =>
                  /\ store = p.store0 /\ store' = store
                  /\ history' = history /\ gets' = gets /\ fetchSeq' = fetchSeq
      ]_vars

\* C2 witness: a producer failure has been handled while a non-empty history was shown
C2_Witness ==
    error = Some("Server error") /\ ~isLoading /\ posts = {} /\ history # EmptyMap

\* C3 (blank input): while the input is empty or whitespace only no POST is issued, and
\* a rejected handleResearch call changes nothing: input, loading flag, results, error,
\* history, requests in flight and the store are as before.
C3_BlankRejected ==
    [][ /\ AllWhitespace(value) => (postSeq' = postSeq /\ posts' \subseteq posts)
        /\ rejected' => /\ AllWhitespace(value)
                        /\ UNCHANGED <<client, posts, gets, postSeq, fetchSeq, store, clock>>
      ]_vars

\* C3 witness: handleResearch has just returned early on a whitespace-only input
C3_Witness ==
    rejected /\ value = <<" ">> /\ ~isLoading /\ error = None

\* C4 (bucket ordering): every answer ever appended is still in the store, each bucket
\* lists its answers in the order they were appended (oldest first), and every
\* fetchHistory answer in flight, and every bucket the sidebar renders, is a leading part
\* of the store's bucket in that same order: no entry removed, no two entries swapped.
C4_BucketOrdering ==
    /\ StoredInstants(store) = 1..clock
    /\ \A c \in DOMAIN store : OldestFirst(store[c])
    /\ \A g \in gets : \A c \in DOMAIN g.data :
          IsPrefix(Rows(g.data[c]), Rows(Bucket(store, c)))
    /\ \A c \in DOMAIN Sidebar : IsPrefix(Sidebar[c], Rows(Bucket(store, c)))

\* C4 witness: the sidebar renders a bucket of two entries
C4_Witness ==
    \E c \in DOMAIN Sidebar : Len(Sidebar[c]) >= 2

\* C5 (isolation): a step that changes the bucket of category c leaves every other
\* bucket as it was, and what it adds to c has category c and is in no other bucket.
C5_Isolation ==
    [][ \A c \in DOMAIN store' :
           store'[c] # Bucket(store, c) =>
              /\ \A d \in (DOMAIN store \cup DOMAIN store') \ {c} :
                    Bucket(store', d) = Bucket(store, d)
              /\ \A i \in 1..Len(store'[c]) :
                    /\ store'[c][i].category = c
                    /\ \A d \in DOMAIN store' \ {c} : \A j \in 1..Len(store'[d]) :
                          store'[d][j] # store'[c][i]
      ]_vars

\* C5 witness: two categories hold entries
C5_Witness ==
    Cardinality({c \in DOMAIN store : store[c] # <<>>}) >= 2

\* C6 (no silent swallowing): after a failed submission, a failed history read or a
\* rejected blank submission has been handled, the error state is non-null.
C6_AllFailuresSurfaced ==
    [][ /\ \A p \in posts : SubmitFailed(p) => error' # None
        /\ \A g \in gets : ReadFailed(g) => error' # None
        /\ rejected' => error' # None
      ]_vars

\* C7 (submission state machine): a POST is issued only by a step that takes the page
\* from not loading to loading, one POST per such step; a step that consumes the outcome
\* of a submission issues no POST (no retry), ends with the loading flag false and with
\* either results (Succeeded) or an error (Failed) set.
C7_SubmissionStates ==
    [][ /\ postSeq' # postSeq =>
              /\ ~isLoading /\ isLoading'
              /\ postSeq' = postSeq + 1
              /\ Cardinality(posts') = Cardinality(posts) + 1
        /\ (isLoading' /\ ~isLoading) => postSeq' = postSeq + 1
        /\ \A p \in posts : SubmitConsumed(p) =>
              /\ postSeq' = postSeq
              /\ posts' \subseteq posts
              /\ ~isLoading'
              /\ (results' # None \/ error' # None)
      ]_vars

\* C7 witness: two submissions have run to their end, one Succeeded and one Failed
C7_Witness ==
    postSeq >= 2 /\ posts = {} /\ ~isLoading /\ succeeded # {} /\ error # None

\* C8 as stated: when a failed submission is handled the error is non-null, and the
\* history and the input text are what they were when the submission started.
C8_AsAtSubmissionStart ==
    [][ \A p \in posts :
           SubmitFailed(p) => (error' # None /\ history' = p.hist0 /\ value' = p.asked)
      ]_vars

\* C8 amended: the step that handles a failed submission sets a non-null error and
\* leaves history and input text as they were just before it; while a submission is in
\* flight the history changes only by a fetchHistory answer being applied and the
\* input text only by a history item being loaded.
C8_FailureKeepsHistoryAndInput ==
    [][ /\ \A p \in posts :
              SubmitFailed(p) => (error' # None /\ history' = history /\ value' = value)
        /\ (isLoading /\ history' # history) =>
              \E g \in gets : ReadConsumed(g) /\ g.stage = "ok" /\ history' = g.data
        /\ (isLoading /\ value' # value) =>
              \E c \in DOMAIN history : \E i \in 1..Len(history[c]) :
                  value' = history[c][i].question
      ]_vars

\* C8 witness: a failure is shown, the question is still in the input, history is kept
C8_Witness ==
    /\ error # None /\ ~isLoading /\ posts = {}
    /\ ~AllWhitespace(value) /\ history # EmptyMap /\ ~ButtonDisabled

\* C9 (single flight): at most one research POST is in flight, and only while the
\* loading flag is true.
C9_SingleFlight ==
    /\ Cardinality(posts) <= 1
    /\ posts # {} => isLoading

\* C9 witness: while a submission is in flight a history item was loaded, which put
\* another question into the input
C9_Witness ==
    isLoading /\ results # None /\ \E p \in posts : value # p.asked

\* C10 (latest fetch wins): once no fetchHistory is in flight and the most recently
\* issued one was answered, the history state shows every submission that had
\* succeeded before that fetch was issued.
C10_LatestFetchWins ==
    (gets = {} /\ latest.status = "ok") => \A s \in latest.after : HasEntry(history, s)

====
